---- MODULE Spec2Model ----
(***************************************************************************)
(* Model of app/agent.py: the source collector callback, the citation      *)
(* replacement callback and the EscalationChecker agent, working on the    *)
(* session state slots `url_to_short_id`, `sources`, `research_evaluation`,*)
(* `final_cited_report` and `final_report_with_citations`.                 *)
(*                                                                         *)
(* Text is a sequence of characters, each a one-character string; a        *)
(* character that has no string literal is the token Chr(code point).      *)
(* A Python value that may be None is None (the empty tuple) or Some(v)    *)
(* (a one-element tuple).                                                  *)
(* Floats are opaque decimal strings ("0.5").                              *)
(***************************************************************************)
EXTENDS FiniteSets, Integers, Sequences, TLC

VARIABLES events, url_to_short_id, sources, invocations,
          research_evaluation, emitted,
          final_cited_report, report_parts, final_report_with_citations, returned

vars == <<events, url_to_short_id, sources, invocations,
          research_evaluation, emitted,
          final_cited_report, report_parts, final_report_with_citations, returned>>

\* ---- bounds ----
MaxEvents == 2
MaxCollects == 2
MaxChecks == 5
MaxParts == 3

\* ---- Python values ----
None == <<>>
Some(v) == <<v>>
Val(o) == o[1]
IsNone(o) == Len(o) = 0
\* truthiness of an optional list: None and [] are both falsy
Truthy(o) == ~IsNone(o) /\ Len(Val(o)) > 0
\* `x or []`
OrEmpty(o) == IF Truthy(o) THEN Val(o) ELSE <<>>

DigitChars == <<"0", "1", "2", "3", "4", "5", "6", "7", "8", "9">>

\* str(n) of a non-negative integer, as an f-string renders it
RECURSIVE Str(_)
Str(n) == IF n < 10 THEN <<DigitChars[n + 1]>>
          ELSE Str(n \div 10) \o <<DigitChars[(n % 10) + 1]>>

\* str(v) of an optional text, as an f-string renders it
PyStr(o) == IF IsNone(o) THEN <<"N", "o", "n", "e">> ELSE Val(o)

\* ---- the collector ----
ShortId(id_counter) == <<"s", "r", "c", "-">> \o Str(id_counter)

InitialIdCounter_Reset(index) == 1

InitialIdCounter(index) == Cardinality(DOMAIN index) + 1

NextIdCounter_Stuck(id_counter) == id_counter

NextIdCounter(id_counter) == id_counter + 1

IsNewUrl_Always(url, index) == TRUE

IsNewUrl(url, index) == url \notin DOMAIN index

ChunkTitle(web) == IF web.title # web.domain THEN web.title ELSE web.domain

NewSource(short_id, title, url, domain) ==
    [short_id |-> short_id, title |-> title, url |-> url, domain |-> domain,
     supported_claims |-> <<>>]

\* one iteration of the chunk loop; idx is the 0-based enumerate index
RegisterChunk(st, idx, chunk) ==
    IF IsNone(chunk.web) THEN st
    ELSE LET web == Val(chunk.web)
             url == web.uri
             title == ChunkTitle(web)
             short_id == ShortId(st.id_counter)
             st1 == IF IsNewUrl(url, st.url_to_short_id)
                    THEN [st EXCEPT !.url_to_short_id = (url :> short_id) @@ @,
                                    !.sources = (short_id :> NewSource(short_id, title, url, web.domain)) @@ @,
                                    !.id_counter = NextIdCounter(@)]
                    ELSE st
         IN [st1 EXCEPT !.chunks_info = (idx :> st1.url_to_short_id[url]) @@ @]

RECURSIVE ProcessChunks(_, _, _)
ProcessChunks(chunks, idx, st) ==
    IF idx >= Len(chunks) THEN st
    ELSE ProcessChunks(chunks, idx + 1, RegisterChunk(st, idx, chunks[idx + 1]))

DefaultConfidence_Zero == "0.0"

DefaultConfidence == "0.5"

Confidence(confidence_scores, i) ==
    IF i < Len(confidence_scores) THEN confidence_scores[i + 1] ELSE DefaultConfidence

TextSegment(support) == IF IsNone(support.segment) THEN <<>> ELSE Val(support.segment).text

ChunkResolves(chunk_idx, chunks_info) == chunk_idx \in DOMAIN chunks_info

\* one iteration of the chunk-index loop of a support; i is 0-based
AppendClaim(st, support, i) ==
    LET confidence_scores == OrEmpty(support.confidence_scores)
        chunk_indices == OrEmpty(support.grounding_chunk_indices)
        chunk_idx == chunk_indices[i + 1]
    IN IF ChunkResolves(chunk_idx, st.chunks_info)
       THEN LET short_id == st.chunks_info[chunk_idx]
                entry == [text_segment |-> TextSegment(support),
                          confidence |-> Confidence(confidence_scores, i)]
            IN [st EXCEPT !.sources[short_id].supported_claims = Append(@, entry)]
       ELSE st

RECURSIVE ProcessIndices(_, _, _)
ProcessIndices(support, i, st) ==
    IF i >= Len(OrEmpty(support.grounding_chunk_indices)) THEN st
    ELSE ProcessIndices(support, i + 1, AppendClaim(st, support, i))

RECURSIVE ProcessSupports(_, _, _)
ProcessSupports(supports, k, st) ==
    IF k > Len(supports) THEN st
    ELSE ProcessSupports(supports, k + 1, ProcessIndices(supports[k], 0, st))

FreshChunksInfo_Carried(carried) == carried

\* chunks_info at the start of an event's processing
FreshChunksInfo(carried) == <<>>

HasGroundingChunks(event) ==
    ~IsNone(event.grounding_metadata) /\ Truthy(Val(event.grounding_metadata).grounding_chunks)

ProcessEvent(event, st) ==
    IF ~HasGroundingChunks(event) THEN st
    ELSE LET gm == Val(event.grounding_metadata)
             st0 == [st EXCEPT !.chunks_info = FreshChunksInfo(@)]
             st1 == ProcessChunks(Val(gm.grounding_chunks), 0, st0)
         IN IF Truthy(gm.grounding_supports)
            THEN ProcessSupports(Val(gm.grounding_supports), 1, st1)
            ELSE st1

RECURSIVE ProcessEvents(_, _, _)
ProcessEvents(evs, k, st) ==
    IF k > Len(evs) THEN st
    ELSE ProcessEvents(evs, k + 1, ProcessEvent(evs[k], st))

\* the two slots as the callback leaves them
collect_research_sources_callback(index, registry, evs) ==
    LET st == ProcessEvents(evs, 1, [url_to_short_id |-> index, sources |-> registry,
                                     id_counter |-> InitialIdCounter(index),
                                     chunks_info |-> <<>>])
    IN [url_to_short_id |-> st.url_to_short_id, sources |-> st.sources]

\* ---- session events the runtime can deliver ----
U1 == <<"u", "1">>
U2 == <<"u", "2">>
U3 == <<"u", "3">>
U4 == <<"u", "4">>
T1 == <<"T", "1">>
T2 == <<"T", "2">>
D1 == <<"d", "1">>
D2 == <<"d", "2">>
D3 == <<"d", "3">>
D4 == <<"d", "4">>
S1 == <<"x">>
S3 == <<"z">>

Web(uri, title, domain) == [web |-> Some([uri |-> uri, title |-> title, domain |-> domain])]
NonWeb == [web |-> None]
Support(segment, indices, scores) ==
    [segment |-> segment, grounding_chunk_indices |-> indices, confidence_scores |-> scores]
Grounded(chunks, supports) ==
    [grounding_metadata |-> Some([grounding_chunks |-> chunks, grounding_supports |-> supports])]

EvPlain == [grounding_metadata |-> None]
EvA == Grounded(Some(<<Web(U1, Some(T1), Some(D1)), Web(U2, Some(T2), Some(D2))>>),
                Some(<<Support(Some([text |-> S1]), Some(<<0, 1>>), Some(<<"0.9">>))>>))
EvB == Grounded(Some(<<NonWeb, Web(U1, Some(T1), Some(D1))>>),
                Some(<<Support(None, Some(<<1, 0, 2>>), None)>>))
EvC == Grounded(Some(<<Web(U3, None, Some(D3))>>),
                Some(<<Support(Some([text |-> S3]), Some(<<0, 1>>), Some(<<"0.8", "0.7">>))>>))
EvD == Grounded(Some(<<Web(U2, Some(T2), Some(D2)), Web(U4, Some(<<>>), Some(D4)),
                       Web(U2, Some(T2), Some(D2)), Web(U3, Some(D3), Some(D3))>>),
                None)
EvE == Grounded(None, Some(<<Support(Some([text |-> S1]), Some(<<0>>), Some(<<"0.9">>))>>))

EventUniverse == {EvPlain, EvA, EvB, EvC, EvD, EvE}

\* ---- the citation rewriter ----
\* the one-character string of code point n, for the characters that have no
\* literal of their own: the token "U+<hex>" stands for the character
HexChars == <<"0", "1", "2", "3", "4", "5", "6", "7", "8", "9", "A", "B", "C", "D", "E", "F">>

RECURSIVE Hex(_)
Hex(n) == IF n < 16 THEN HexChars[n + 1] ELSE Hex(n \div 16) \o HexChars[(n % 16) + 1]

Chr(n) == "U+" \o Hex(n)

\* \s of a str pattern: the Unicode whitespace characters
WhitespaceCodePoints ==
    {11, 28, 29, 30, 31, 133, 160, 5760, 8232, 8233, 8239, 8287, 12288} \cup (8192..8202)

Whitespace == {" ", "\t", "\n", "\r", "\f"} \cup {Chr(n) : n \in WhitespaceCodePoints}

\* \d of a str pattern: the Unicode decimal digits (category Nd); the ranges
\* of code points beyond ASCII
DigitRanges ==
    {<<1632, 1641>>, <<1776, 1785>>, <<1984, 1993>>, <<2406, 2415>>, <<2534, 2543>>,
     <<2662, 2671>>, <<2790, 2799>>, <<2918, 2927>>, <<3046, 3055>>, <<3174, 3183>>,
     <<3302, 3311>>, <<3430, 3439>>, <<3558, 3567>>, <<3664, 3673>>, <<3792, 3801>>,
     <<3872, 3881>>, <<4160, 4169>>, <<4240, 4249>>, <<6112, 6121>>, <<6160, 6169>>,
     <<6470, 6479>>, <<6608, 6617>>, <<6784, 6793>>, <<6800, 6809>>, <<6992, 7001>>,
     <<7088, 7097>>, <<7232, 7241>>, <<7248, 7257>>, <<42528, 42537>>, <<43216, 43225>>,
     <<43264, 43273>>, <<43472, 43481>>, <<43504, 43513>>, <<43600, 43609>>,
     <<44016, 44025>>, <<65296, 65305>>, <<66720, 66729>>, <<68912, 68921>>,
     <<69734, 69743>>, <<69872, 69881>>, <<69942, 69951>>, <<70096, 70105>>,
     <<70384, 70393>>, <<70736, 70745>>, <<70864, 70873>>, <<71248, 71257>>,
     <<71360, 71369>>, <<71472, 71481>>, <<71904, 71913>>, <<72016, 72025>>,
     <<72784, 72793>>, <<73040, 73049>>, <<73120, 73129>>, <<92768, 92777>>,
     <<92864, 92873>>, <<93008, 93017>>, <<120782, 120831>>, <<123200, 123209>>,
     <<123632, 123641>>, <<125264, 125273>>, <<130032, 130041>>}

Digits == {"0", "1", "2", "3", "4", "5", "6", "7", "8", "9"}
          \cup {Chr(n) : n \in UNION {r[1]..r[2] : r \in DigitRanges}}
Quotes == {"\"", "'"}
Punctuation == {".", ",", ";", ":"}

\* position after the longest run of characters of class `cls` starting at p
RECURSIVE SkipClass(_, _, _)
SkipClass(s, p, cls) ==
    IF p <= Len(s) /\ s[p] \in cls THEN SkipClass(s, p + 1, cls) ELSE p

\* position after literal `lit` at p, or 0 when it is not there
MatchLit(s, p, lit) ==
    IF p >= 1 /\ p + Len(lit) - 1 <= Len(s) /\ SubSeq(s, p, p + Len(lit) - 1) = lit
    THEN p + Len(lit) ELSE 0

\* position after an optional quote at p
SkipQuote(s, p) == IF p <= Len(s) /\ s[p] \in Quotes THEN p + 1 ELSE p

\* <cite\s+source\s*=\s*["']?\s*(src-\d+)\s*["']?\s*/>  tried at position p:
\* [end |-> position after the match (0: no match), group |-> group(1)]
NoMatch == [end |-> 0, group |-> <<>>]
MatchCite(s, p) ==
    LET p1 == MatchLit(s, p, <<"<", "c", "i", "t", "e">>)
        p2 == SkipClass(s, p1, Whitespace)
        p3 == MatchLit(s, p2, <<"s", "o", "u", "r", "c", "e">>)
        p4 == SkipClass(s, p3, Whitespace)
        p5 == MatchLit(s, p4, <<"=">>)
        p6 == SkipQuote(s, SkipClass(s, p5, Whitespace))
        g1 == SkipClass(s, p6, Whitespace)
        g2 == MatchLit(s, g1, <<"s", "r", "c", "-">>)
        g3 == SkipClass(s, g2, Digits)
        p7 == SkipClass(s, SkipQuote(s, SkipClass(s, g3, Whitespace)), Whitespace)
        p8 == MatchLit(s, p7, <<"/", ">">>)
    IN IF p1 = 0 \/ p2 = p1 THEN NoMatch
       ELSE IF p3 = 0 THEN NoMatch
       ELSE IF p5 = 0 THEN NoMatch
       ELSE IF g2 = 0 \/ g3 = g2 THEN NoMatch
       ELSE IF p8 = 0 THEN NoMatch
       ELSE [end |-> p8, group |-> SubSeq(s, g1, g3 - 1)]

\* source_info.get("title", source_info.get("domain", short_id))
DisplayText(source_info, short_id) ==
    IF "title" \in DOMAIN source_info THEN PyStr(source_info.title)
    ELSE IF "domain" \in DOMAIN source_info THEN PyStr(source_info.domain)
    ELSE short_id

\* sources.get(short_id) is truthy
Resolves(short_id, registry) == short_id \in DOMAIN registry

tag_replacer_Placeholder(short_id, registry) ==
    IF ~Resolves(short_id, registry) THEN <<"[", "?", "]">>
    ELSE <<" ", "[">> \o DisplayText(registry[short_id], short_id) \o <<"]", "(">>
         \o registry[short_id].url \o <<")">>

tag_replacer(short_id, registry) ==
    IF ~Resolves(short_id, registry) THEN <<>>
    ELSE <<" ", "[">> \o DisplayText(registry[short_id], short_id) \o <<"]", "(">>
         \o registry[short_id].url \o <<")">>

\* re.sub(<cite pattern>, tag_replacer, s) from position p on
RECURSIVE SubCite(_, _, _)
SubCite(s, p, registry) ==
    IF p > Len(s) THEN <<>>
    ELSE LET m == MatchCite(s, p)
         IN IF m.end > 0
            THEN tag_replacer(m.group, registry) \o SubCite(s, m.end, registry)
            ELSE <<s[p]>> \o SubCite(s, p + 1, registry)

\* re.sub(r"\s+([.,;:])", r"\1", s) from position p on
RECURSIVE SubPunct(_, _)
SubPunct(s, p) ==
    IF p > Len(s) THEN <<>>
    ELSE LET q == SkipClass(s, p, Whitespace)
         IN IF q > p /\ q <= Len(s) /\ s[q] \in Punctuation
            THEN <<s[q]>> \o SubPunct(s, q + 1)
            ELSE <<s[p]>> \o SubPunct(s, p + 1)

\* state.get("final_cited_report", "")
ReportOrEmpty(slot) == IF IsNone(slot) THEN <<>> ELSE Val(slot)

\* the processed report the callback stores and returns
citation_replacement_callback(slot, registry) ==
    SubPunct(SubCite(ReportOrEmpty(slot), 1, registry), 1)

\* ---- report text the composer can produce ----
TextA == <<"A">>
\* a run of whitespace: a space and a carriage return
Space == <<" ", "\r">>
Stop == <<".">>
Cite1 == <<"<", "c", "i", "t", "e", " ", "s", "o", "u", "r", "c", "e", "=", "\"",
           "s", "r", "c", "-", "1", "\"", "/", ">">>
Cite2 == <<"<", "c", "i", "t", "e", "\n", "s", "o", "u", "r", "c", "e", " ", "=", " ", "'",
           "s", "r", "c", "-", "2", "'", " ", "/", ">">>
Cite99 == <<"<", "c", "i", "t", "e", " ", "s", "o", "u", "r", "c", "e", "=",
            "s", "r", "c", "-", "9", "9", "/", ">">>
\* <cite\rsource="src-(ARABIC-INDIC DIGIT ONE)"(NO-BREAK SPACE)/>
CiteWide == <<"<", "c", "i", "t", "e", "\r", "s", "o", "u", "r", "c", "e", "=", "\"",
              "s", "r", "c", "-", Chr(1633), "\"", Chr(160), "/", ">">>
CiteOpen == <<"<", "c", "i", "t", "e", " ">>
CiteRest == <<"s", "o", "u", "r", "c", "e", "=", "\"", "s", "r", "c", "-", "1", "\"", "/", ">">>

ReportPieces == {TextA, Space, Stop, Cite1, Cite2, Cite99, CiteWide, CiteOpen, CiteRest}

\* "A<cite source="src-1"/>, B<cite source="src-2"/>."
ExampleParts == <<TextA, Cite1, <<",", " ", "B">>, Cite2, Stop>>

RECURSIVE Concat(_)
Concat(parts) == IF parts = <<>> THEN <<>> ELSE Head(parts) \o Concat(Tail(parts))

RECURSIVE PartSeqs(_)
PartSeqs(n) ==
    IF n = 0 THEN {<<>>}
    ELSE LET shorter == PartSeqs(n - 1)
         IN shorter \cup {Append(ps, pc) : ps \in shorter, pc \in ReportPieces}

ReportInputs == PartSeqs(MaxParts) \cup {ExampleParts}

\* sessions at the time the report is composed
ReportSessions == {<<EvA>>, <<EvC, EvA>>, <<EvD>>}

\* ---- the escalation checker ----
CheckerName == <<"c", "k">>

Verdict(grade, follow_up_queries) ==
    [grade |-> grade, comment |-> <<"c">>, follow_up_queries |-> follow_up_queries]

Verdicts == {Verdict("pass", None), Verdict("fail", None), Verdict("fail", Some(<<<<"q">>>>))}

ShouldEscalate_AnyVerdict(evaluation_result) == ~IsNone(evaluation_result)

\* evaluation_result and evaluation_result.get("grade") == "pass"
ShouldEscalate(evaluation_result) ==
    ~IsNone(evaluation_result) /\ Val(evaluation_result).grade = "pass"

\* the events one run of _run_async_impl yields
run_async_impl(name, evaluation_result) ==
    IF ShouldEscalate(evaluation_result)
    THEN <<[author |-> name, actions |-> [escalate |-> Some(TRUE)]]>>
    ELSE <<[author |-> name, actions |-> [escalate |-> None]]>>

\* ---- actions ----
Init ==
    /\ events = <<>>
    /\ url_to_short_id = <<>>
    /\ sources = <<>>
    /\ invocations = 0
    /\ research_evaluation = None
    /\ emitted = <<>>
    /\ final_cited_report = None
    /\ report_parts = <<>>
    /\ final_report_with_citations = None
    /\ returned = None

AppendEvent ==
    /\ Len(events) < MaxEvents
    /\ \E e \in EventUniverse : events' = Append(events, e)
    /\ UNCHANGED <<url_to_short_id, sources, invocations, research_evaluation, emitted,
                   final_cited_report, report_parts, final_report_with_citations, returned>>

Collect ==
    /\ invocations < MaxCollects
    /\ LET r == collect_research_sources_callback(url_to_short_id, sources, events)
       IN /\ url_to_short_id' = r.url_to_short_id
          /\ sources' = r.sources
    /\ invocations' = invocations + 1
    /\ UNCHANGED <<events, research_evaluation, emitted,
                   final_cited_report, report_parts, final_report_with_citations, returned>>

\* the evaluator agent writes its verdict into the slot
Evaluate ==
    /\ \E v \in Verdicts : research_evaluation' = Some(v)
    /\ UNCHANGED <<events, url_to_short_id, sources, invocations, emitted,
                   final_cited_report, report_parts, final_report_with_citations, returned>>

RunEscalationChecker ==
    /\ Len(emitted) < MaxChecks
    /\ emitted' = emitted \o run_async_impl(CheckerName, research_evaluation)
    /\ UNCHANGED <<events, url_to_short_id, sources, invocations, research_evaluation,
                   final_cited_report, report_parts, final_report_with_citations, returned>>

\* the composer agent writes the cited report into the slot
ComposeReport ==
    /\ IsNone(final_cited_report)
    /\ \E parts \in ReportInputs :
          /\ report_parts' = parts
          /\ final_cited_report' = Some(Concat(parts))
    /\ UNCHANGED <<events, url_to_short_id, sources, invocations, research_evaluation, emitted,
                   final_report_with_citations, returned>>

Rewrite ==
    /\ LET processed_report == citation_replacement_callback(final_cited_report, sources)
       IN /\ final_report_with_citations' = Some(processed_report)
          /\ returned' = Some(processed_report)
    /\ UNCHANGED <<events, url_to_short_id, sources, invocations, research_evaluation, emitted,
                   final_cited_report, report_parts>>

\* ---- what the claims speak of, read off the events directly ----
RECURSIVE Flatten(_)
Flatten(ss) == IF ss = <<>> THEN <<>> ELSE Head(ss) \o Flatten(Tail(ss))

ChunksOf(event) ==
    IF IsNone(event.grounding_metadata) THEN <<>>
    ELSE OrEmpty(Val(event.grounding_metadata).grounding_chunks)

SupportsOf(event) ==
    IF IsNone(event.grounding_metadata) THEN <<>>
    ELSE OrEmpty(Val(event.grounding_metadata).grounding_supports)

IndicesOf(support) == OrEmpty(support.grounding_chunk_indices)

\* the web URLs of the events' chunks, one per occurrence, in order
UrlOccurrences(evs) ==
    LET all == Flatten([k \in 1..Len(evs) |-> ChunksOf(evs[k])])
        web == SelectSeq(all, LAMBDA c : ~IsNone(c.web))
    IN [n \in 1..Len(web) |-> Val(web[n].web).uri]

SeenUrls(evs) == {UrlOccurrences(evs)[n] : n \in 1..Len(UrlOccurrences(evs))}

RECURSIVE FirstSeen(_, _)
FirstSeen(occ, acc) ==
    IF occ = <<>> THEN acc
    ELSE FirstSeen(Tail(occ),
                   IF \E n \in 1..Len(acc) : acc[n] = Head(occ) THEN acc ELSE Append(acc, Head(occ)))

\* the index the claims expect: the k-th first-seen URL gets src-k
ExpectedIndex(evs) ==
    LET order == FirstSeen(UrlOccurrences(evs), <<>>)
    IN [u \in SeenUrls(evs) |->
          <<"s", "r", "c", "-">> \o Str(CHOOSE k \in 1..Len(order) : order[k] = u)]

\* the URL that 0-based chunk index idx of this event resolves to, if any
ResolvedUrl(event, idx) ==
    IF idx >= 0 /\ idx < Len(ChunksOf(event)) /\ ~IsNone(ChunksOf(event)[idx + 1].web)
    THEN Some(Val(ChunksOf(event)[idx + 1].web).uri)
    ELSE None

\* every (event, support, position) of the events, in processing order
Positions(evs) ==
    Flatten([k \in 1..Len(evs) |->
        Flatten([j \in 1..Len(SupportsOf(evs[k])) |->
            [i \in 1..Len(IndicesOf(SupportsOf(evs[k])[j])) |->
                [event |-> evs[k], support |-> SupportsOf(evs[k])[j], pos |-> i]]])])

\* the positions whose chunk index resolves, in its own event, to url
PositionsFor(evs, url) ==
    SelectSeq(Positions(evs),
              LAMBDA c : ResolvedUrl(c.event, IndicesOf(c.support)[c.pos]) = Some(url))

\* the claim entries one invocation appended to record k
Appended(old, new, k) ==
    LET before == IF k \in DOMAIN old THEN Len(old[k].supported_claims) ELSE 0
    IN SubSeq(new[k].supported_claims, before + 1, Len(new[k].supported_claims))

KeepsEarlierClaims(old, new) ==
    \A k \in DOMAIN old :
        /\ k \in DOMAIN new
        /\ Len(new[k].supported_claims) >= Len(old[k].supported_claims)
        /\ SubSeq(new[k].supported_claims, 1, Len(old[k].supported_claims)) = old[k].supported_claims

CollectStep == invocations' = invocations + 1

\* C1: after every collector invocation the registry holds exactly one record
\* for each web URL seen in the events and none for any other URL, and a URL
\* already in the index keeps the short identifier it has.
C1_OneRecordPerUrl ==
    [][CollectStep =>
        /\ \A u \in SeenUrls(events') :
              Cardinality({k \in DOMAIN sources' : sources'[k].url = u}) = 1
        /\ \A k \in DOMAIN sources' : sources'[k].url \in SeenUrls(events')
        /\ Cardinality(DOMAIN sources') = Cardinality(SeenUrls(events'))
        /\ \A u \in DOMAIN url_to_short_id :
              u \in DOMAIN url_to_short_id' /\ url_to_short_id'[u] = url_to_short_id[u]]_vars

C1_Witness ==
    /\ invocations = 2
    /\ Len(events) = 2
    /\ \E u \in SeenUrls(events) :
          /\ \E m, n \in 1..Len(UrlOccurrences(events)) :
                m # n /\ UrlOccurrences(events)[m] = u /\ UrlOccurrences(events)[n] = u
          /\ u \in DOMAIN url_to_short_id
          /\ sources[url_to_short_id[u]].url = u

\* C2: after every collector invocation the k-th distinct URL in first-seen
\* order has the identifier src-k, whatever invocations came before, and no
\* invocation changes the identifier of a URL or the URL of an identifier.
C2_FirstSeenOrder ==
    [][/\ CollectStep => url_to_short_id' = ExpectedIndex(events')
       /\ \A u \in DOMAIN url_to_short_id :
             u \in DOMAIN url_to_short_id' /\ url_to_short_id'[u] = url_to_short_id[u]
       /\ \A k \in DOMAIN sources :
             k \in DOMAIN sources' /\ sources'[k].url = sources[k].url]_vars

C2_Witness ==
    /\ invocations = 2
    /\ events = <<EvA, EvC>>
    /\ url_to_short_id = (U1 :> <<"s", "r", "c", "-", "1">>) @@ (U2 :> <<"s", "r", "c", "-", "2">>)
                         @@ (U3 :> <<"s", "r", "c", "-", "3">>)

\* C3: the URL index and the registry are consistent: the identifiers the
\* index gives are exactly the registry's keys, no two URLs share one, and
\* the record of a URL's identifier carries that URL and that identifier.
C3_IndexConsistent ==
    /\ {url_to_short_id[u] : u \in DOMAIN url_to_short_id} = DOMAIN sources
    /\ \A u, v \in DOMAIN url_to_short_id :
          url_to_short_id[u] = url_to_short_id[v] => u = v
    /\ \A u \in DOMAIN url_to_short_id :
          /\ sources[url_to_short_id[u]].url = u
          /\ sources[url_to_short_id[u]].short_id = url_to_short_id[u]

C3_Witness ==
    /\ invocations = 2
    /\ Cardinality(DOMAIN url_to_short_id) = 3
    /\ Cardinality(DOMAIN sources) = 3

\* C7: the confidences of the claim entries an invocation appends to a record
\* are, in order, those of the positions resolving to the record's URL: the
\* score at the position when the score list covers it, 0.5 otherwise.
ClaimedConfidence(c) ==
    LET scores == OrEmpty(c.support.confidence_scores)
    IN IF c.pos <= Len(scores) THEN scores[c.pos] ELSE "0.5"

C7_ConfidenceDefault ==
    [][CollectStep =>
        /\ KeepsEarlierClaims(sources, sources')
        /\ \A k \in DOMAIN sources' :
              LET got == Appended(sources, sources', k)
                  want == PositionsFor(events', sources'[k].url)
              IN /\ Len(got) = Len(want)
                 /\ \A n \in 1..Len(want) : got[n].confidence = ClaimedConfidence(want[n])]_vars

C7_Witness ==
    /\ invocations = 1
    /\ events = <<EvA, EvB>>
    /\ U1 \in DOMAIN url_to_short_id /\ U2 \in DOMAIN url_to_short_id
    /\ sources[url_to_short_id[U1]].supported_claims =
          <<[text_segment |-> S1, confidence |-> "0.9"], [text_segment |-> <<>>, confidence |-> "0.5"]>>
    /\ sources[url_to_short_id[U2]].supported_claims = <<[text_segment |-> S1, confidence |-> "0.5"]>>

\* C8: the claim entries an invocation appends to a record are, in order, the
\* text segments of exactly the positions whose chunk index is a web chunk of
\* the support's own event with the record's URL; no other position appends.
ClaimedText(c) == IF IsNone(c.support.segment) THEN <<>> ELSE Val(c.support.segment).text

C8_PerEventIndices ==
    [][CollectStep =>
        \A k \in DOMAIN sources' :
            LET got == Appended(sources, sources', k)
                want == PositionsFor(events', sources'[k].url)
            IN [n \in 1..Len(got) |-> got[n].text_segment]
               = [n \in 1..Len(want) |-> ClaimedText(want[n])]]_vars

C8_Witness ==
    /\ invocations = 1
    /\ events = <<EvA, EvC>>
    /\ U2 \in DOMAIN url_to_short_id /\ U3 \in DOMAIN url_to_short_id
    /\ Len(sources[url_to_short_id[U2]].supported_claims) = 1
    /\ sources[url_to_short_id[U3]].supported_claims = <<[text_segment |-> S3, confidence |-> "0.8"]>>

\* C10: a second collector invocation on the same events leaves both slots as
\* the first left them (checked right after every invocation, on its result).
C10_Idempotent ==
    [][CollectStep =>
        collect_research_sources_callback(url_to_short_id', sources', events')
          = [url_to_short_id |-> url_to_short_id', sources |-> sources']]_vars


\* C6: every run of the checker emits exactly one event, which carries
\* escalate = true exactly when the slot holds a verdict graded "pass" and
\* carries no escalate flag otherwise, whatever was emitted before.
C6_EscalateIffPass ==
    [][emitted' # emitted =>
        /\ Len(emitted') = Len(emitted) + 1
        /\ SubSeq(emitted', 1, Len(emitted)) = emitted
        /\ LET flag == emitted'[Len(emitted')].actions.escalate
               pass == research_evaluation \in {Some(v) : v \in {w \in Verdicts : w.grade = "pass"}}
           IN /\ pass => flag = Some(TRUE)
              /\ ~pass => flag = None]_vars

C6_Witness ==
    /\ Len(emitted) = 3
    /\ emitted[1].actions.escalate = None
    /\ emitted[2].actions.escalate = Some(TRUE)
    /\ emitted[3].actions.escalate = None
    /\ research_evaluation = Some(Verdict("fail", Some(<<<<"q">>>>)))

\* ---- the report as composed, piece by piece ----
MarkerPieces == {Cite1, Cite2, Cite99, CiteWide}

MarkerId(part) ==
    CASE part = Cite1 -> <<"s", "r", "c", "-", "1">>
      [] part = Cite2 -> <<"s", "r", "c", "-", "2">>
      [] part = Cite99 -> <<"s", "r", "c", "-", "9", "9">>
      [] part = CiteWide -> <<"s", "r", "c", "-", Chr(1633)>>

\* no piece is a fragment of a marker: the markers of the text are its marker pieces
WellFormed(parts) == \A n \in 1..Len(parts) : parts[n] \notin {CiteOpen, CiteRest}

\* a whitespace character that a run of whitespace separates from a punctuation mark
Dropped(s, p) ==
    /\ s[p] \in Whitespace
    /\ \E q \in (p + 1)..Len(s) : s[q] \in Punctuation /\ \A r \in p..(q - 1) : s[r] \in Whitespace

RECURSIVE Normalised(_, _)
Normalised(s, p) ==
    IF p > Len(s) THEN <<>>
    ELSE (IF Dropped(s, p) THEN <<>> ELSE <<s[p]>>) \o Normalised(s, p + 1)

ContainsMarker(s) == \E p \in 1..Len(s) : MatchCite(s, p).end > 0

RewriteStep == final_report_with_citations' # final_report_with_citations

\* C4: the stored output holds no citation marker.
C4_NoMarkerLeft ==
    ~IsNone(final_report_with_citations) => ~ContainsMarker(Val(final_report_with_citations))

\* C5: the rewriter stores and returns its result whatever the markers name;
\* a marker naming an identifier absent from the registry yields the empty
\* string while the other markers get their links, and no whitespace is left
\* immediately before a punctuation mark.
C5_AbsentMarkerDropped ==
    [][RewriteStep =>
        LET out == Val(final_report_with_citations')
            piece(part) == IF part \in MarkerPieces
                           THEN IF MarkerId(part) \in DOMAIN sources
                                THEN tag_replacer(MarkerId(part), sources)
                                ELSE <<>>
                           ELSE part
        IN /\ ~IsNone(final_report_with_citations')
           /\ returned' = final_report_with_citations'
           /\ \A p \in 1..(Len(out) - 1) : ~(out[p] \in Whitespace /\ out[p + 1] \in Punctuation)
           /\ WellFormed(report_parts) =>
                 out = Normalised(Concat([n \in 1..Len(report_parts) |-> piece(report_parts[n])]), 1)]_vars

C5_Witness ==
    /\ report_parts = <<Cite99, Cite1, Stop>>
    /\ <<"s", "r", "c", "-", "1">> \in DOMAIN sources
    /\ sources[<<"s", "r", "c", "-", "1">>].url = U1
    /\ final_report_with_citations = Some(<<" ", "[", "T", "1", "]", "(", "u", "1", ")", ".">>)
    /\ returned = final_report_with_citations

\* C9: the display text of a resolved marker is the record's title when it
\* has one, else its domain, else the short identifier.
HasText(source_info, field) ==
    field \in DOMAIN source_info /\ ~IsNone(source_info[field]) /\ Val(source_info[field]) # <<>>

ClaimedDisplay(source_info, short_id) ==
    IF HasText(source_info, "title") THEN Val(source_info.title)
    ELSE IF HasText(source_info, "domain") THEN Val(source_info.domain)
    ELSE short_id

C9_TitleFallback ==
    [][RewriteStep /\ WellFormed(report_parts) =>
        LET piece(part) == IF part \in MarkerPieces
                           THEN IF MarkerId(part) \in DOMAIN sources
                                THEN <<" ", "[">> \o ClaimedDisplay(sources[MarkerId(part)], MarkerId(part))
                                     \o <<"]", "(">> \o sources[MarkerId(part)].url \o <<")">>
                                ELSE <<>>
                           ELSE part
        IN Val(final_report_with_citations')
             = Normalised(Concat([n \in 1..Len(report_parts) |-> piece(report_parts[n])]), 1)]_vars

Next == AppendEvent \/ Collect

Spec == Init /\ [][Next]_vars

NextEscalation == Evaluate \/ RunEscalationChecker

SpecEscalation == Init /\ [][NextEscalation]_vars

InitReport ==
    /\ events \in ReportSessions
    /\ url_to_short_id = <<>>
    /\ sources = <<>>
    /\ invocations = 0
    /\ research_evaluation = None
    /\ emitted = <<>>
    /\ final_cited_report = None
    /\ report_parts = <<>>
    /\ final_report_with_citations = None
    /\ returned = None

NextReport == Collect \/ ComposeReport \/ Rewrite

SpecReport == InitReport /\ [][NextReport]_vars
====
